---- MODULE Spec2Model ----
(***************************************************************************)
(* Model of examples/vulnerable_api.py: five Flask handlers that build    *)
(* SQL text (or a shell command) from request input by string             *)
(* interpolation and run it against users.db (or the host shell).         *)
(*                                                                         *)
(* Text is a sequence of lexemes.  Outside a quoted SQL string a lexeme is *)
(* one SQL token ("id", "=", "OR", "1", "'", "--", ";"); inside a quoted   *)
(* string the lexemes are the characters of the string.                    *)
(***************************************************************************)
EXTENDS Integers, Sequences, FiniteSets, TLC

\* ---------------------------------------------------------------- bounds
MaxUsers == 2        \* rows of the seeded users table
MaxRequests == 2     \* requests served in one behaviour
NumThreads == 2      \* requests that may be in flight together

\* ------------------------------------------------------------- constants
DB_PASSWORD == "admin123"
API_SECRET == "sk_live_abc123xyz789"

\* Python's None (a missing JSON field or query parameter): a value that is
\* no text a caller can submit.
None == <<"<None>">>

\* str(v) as an f-string placeholder formats it: None becomes the text None.
PyStr(v) == IF v = None THEN <<"None">> ELSE v

\* ------------------------------------------------------------ the store
NumTok == <<"0", "1", "2", "3", "4", "5", "6", "7", "8", "9">>
IsNum(t) == \E i \in 1..Len(NumTok) : NumTok[i] = t
NumVal(t) == (CHOOSE i \in 1..Len(NumTok) : NumTok[i] = t) - 1
IntText(n) == <<NumTok[n + 1]>>

\* The rows users.db is seeded with, (id, username, password, email, ssn).
\* Row 2's username holds an apostrophe; every username holds a "b".
Username(i) ==
    IF i = 1 THEN <<"a", "b">>
    ELSE IF i = 2 THEN <<"o", "'", "b">>
    ELSE <<"u", "b">> \o IntText(i)
Password(i) == <<"p">> \o IntText(i)
Row(i) == <<i, Username(i), Password(i), <<"e">> \o IntText(i), <<"s">> \o IntText(i)>>

UserIds == 1..MaxUsers
\* an id no seeded row has
NoSuchId == MaxUsers + 1

Columns == {"id", "username", "password", "email", "ssn"}
ColIndex(c) ==
    IF c = "id" THEN 1 ELSE IF c = "username" THEN 2 ELSE IF c = "password" THEN 3
    ELSE IF c = "email" THEN 4 ELSE 5

\* ------------------------------------------------- SQL text, as sqlite runs it
StrItem(s) == [t |-> "str", v |-> s, tok |-> ""]
TokItem(t) == [t |-> "tok", v |-> <<>>, tok |-> t]

\* Tokenise: '...' is a string literal ('' inside it is one apostrophe), --
\* comments out the rest, an unterminated literal is an error.
RECURSIVE LexFrom(_, _, _, _, _)
LexFrom(toks, i, inStr, cur, out) ==
    IF i > Len(toks)
    THEN IF inStr THEN [ok |-> FALSE, items |-> <<>>] ELSE [ok |-> TRUE, items |-> out]
    ELSE LET t == toks[i] IN
         IF inStr
         THEN IF t = "'"
              THEN IF i < Len(toks) /\ toks[i + 1] = "'"
                   THEN LexFrom(toks, i + 2, TRUE, Append(cur, "'"), out)
                   ELSE LexFrom(toks, i + 1, FALSE, <<>>, Append(out, StrItem(cur)))
              ELSE LexFrom(toks, i + 1, TRUE, Append(cur, t), out)
         ELSE IF t = "'" THEN LexFrom(toks, i + 1, TRUE, <<>>, out)
         ELSE IF t = "--" THEN [ok |-> TRUE, items |-> out]
         ELSE LexFrom(toks, i + 1, FALSE, <<>>, Append(out, TokItem(t)))
Lex(toks) == LexFrom(toks, 1, FALSE, <<>>, <<>>)

IsTok(item, t) == item.t = "tok" /\ item.tok = t

\* Split a token list at every top-level occurrence of the token sep.
RECURSIVE SplitFrom(_, _, _, _, _)
SplitFrom(items, sep, i, cur, out) ==
    IF i > Len(items) THEN Append(out, cur)
    ELSE IF IsTok(items[i], sep) THEN SplitFrom(items, sep, i + 1, <<>>, Append(out, cur))
    ELSE SplitFrom(items, sep, i + 1, Append(cur, items[i]), out)
SplitOn(items, sep) == SplitFrom(items, sep, 1, <<>>, <<>>)

IsOperand(item) == item.t = "str" \/ IsNum(item.tok) \/ item.tok \in Columns
IsCmpOp(item) == IsTok(item, "=") \/ IsTok(item, "LIKE")

\* operand (op operand)*, op one of = and LIKE (equal precedence, left to right)
ValidCmp(c) ==
    /\ Len(c) % 2 = 1
    /\ \A i \in 1..Len(c) : IF i % 2 = 1 THEN IsOperand(c[i]) ELSE IsCmpOp(c[i])
\* OR binds weaker than AND, AND weaker than the comparisons; an unknown name
\* or a missing operand is a compile error.
ValidExpr(items) ==
    \A o \in 1..Len(SplitOn(items, "OR")) :
        LET ands == SplitOn(SplitOn(items, "OR")[o], "AND") IN
        \A a \in 1..Len(ands) : ValidCmp(ands[a])

\* Values: an integer or a text, with the affinity of the column it came from.
IntV(n, aff) == [k |-> "int", n |-> n, s |-> <<>>, aff |-> aff]
StrV(s, aff) == [k |-> "str", n |-> 0, s |-> s, aff |-> aff]
OperandVal(item, row) ==
    IF item.t = "str" THEN StrV(item.v, "none")
    ELSE IF IsNum(item.tok) THEN IntV(NumVal(item.tok), "none")
    ELSE IF item.tok = "id" THEN IntV(row[1], "int")
    ELSE StrV(row[ColIndex(item.tok)], "text")

\* the leading digits of a text, as a number (0 when there are none)
RECURSIVE NumPrefix(_, _, _)
NumPrefix(s, i, acc) ==
    IF i > Len(s) \/ ~IsNum(s[i]) THEN acc ELSE NumPrefix(s, i + 1, acc * 10 + NumVal(s[i]))
LooksNumeric(s) == Len(s) >= 1 /\ \A i \in 1..Len(s) : IsNum(s[i])
ToNumeric(v) ==
    IF v.k = "str" /\ LooksNumeric(v.s) THEN IntV(NumPrefix(v.s, 1, 0), "none") ELSE v
ToText(v) == IF v.k = "int" THEN StrV(IntText(v.n), "none") ELSE v
Truthy(v) == IF v.k = "int" THEN v.n # 0 ELSE NumPrefix(v.s, 1, 0) # 0

\* a = b after sqlite's affinity conversion; texts compare byte for byte.
SqlEq(a, b) ==
    LET a2 == IF b.aff = "int" /\ a.aff # "int" THEN ToNumeric(a)
              ELSE IF b.aff = "text" /\ a.aff = "none" THEN ToText(a) ELSE a
        b2 == IF a.aff = "int" /\ b.aff # "int" THEN ToNumeric(b)
              ELSE IF a.aff = "text" /\ b.aff = "none" THEN ToText(b) ELSE b
    IN  a2.k = b2.k /\ a2.n = b2.n /\ a2.s = b2.s

\* LIKE folds ASCII case; % matches any run of characters, _ exactly one.
Lower(c) == IF c = "A" THEN "a" ELSE IF c = "B" THEN "b" ELSE IF c = "O" THEN "o" ELSE c
RECURSIVE LikeFrom(_, _, _, _)
LikeFrom(pat, i, s, j) ==
    IF i > Len(pat) THEN j > Len(s)
    ELSE IF pat[i] = "%" THEN \E k \in j..(Len(s) + 1) : LikeFrom(pat, i + 1, s, k)
    ELSE IF j > Len(s) THEN FALSE
    ELSE IF pat[i] = "_" \/ Lower(pat[i]) = Lower(s[j]) THEN LikeFrom(pat, i + 1, s, j + 1)
    ELSE FALSE
SqlLike(a, b) == LikeFrom(ToText(b).s, 1, ToText(a).s, 1)

BoolV(b) == IntV(IF b THEN 1 ELSE 0, "none")
RECURSIVE EvalCmp(_, _, _, _)
EvalCmp(c, row, i, acc) ==
    IF i > Len(c) THEN acc
    ELSE LET rhs == OperandVal(c[i + 1], row) IN
         EvalCmp(c, row, i + 2,
                 BoolV(IF IsTok(c[i], "=") THEN SqlEq(acc, rhs) ELSE SqlLike(acc, rhs)))
EvalExpr(items, row) ==
    \E o \in 1..Len(SplitOn(items, "OR")) :
        LET ands == SplitOn(SplitOn(items, "OR")[o], "AND") IN
        \A a \in 1..Len(ands) : Truthy(EvalCmp(ands[a], row, 2, OperandVal(ands[a][1], row)))

\* cursor.execute(sql) for "<verb> ... FROM users WHERE <where>": the rows of
\* table the predicate selects, in table order, or an error (ok = FALSE) when
\* the text does not compile or holds a second statement.
Execute(where, table) ==
    LET lx == Lex(where)
        stmts == SplitOn(lx.items, ";")
        tailEmpty == \A i \in 2..Len(stmts) : stmts[i] = <<>>
    IN  IF ~lx.ok \/ ~ValidExpr(stmts[1]) \/ ~tailEmpty
        THEN [ok |-> FALSE, rows |-> <<>>]
        ELSE [ok |-> TRUE, rows |-> SelectSeq(table, LAMBDA r : EvalExpr(stmts[1], r))]

\* The table a committed "DELETE FROM users WHERE <where>" leaves.
DeleteWhere(where, table) ==
    LET hit == Execute(where, table).rows IN
    SelectSeq(table, LAMBDA r : \A i \in 1..Len(hit) : hit[i] # r)


\* ------------------------------------------------------------ the state
VARIABLES
    store,      \* the users table of users.db, in iteration order
    seeded,     \* the table as it was seeded (never written)
    platform,   \* the host the process runs on: "posix" or "nt"
    resp,       \* the last response sent, with the request it answers
    log,        \* the lines printed to stdout
    nreq,       \* requests accepted so far
    opened,     \* the connections sqlite3.connect has returned so far
    inflight    \* per worker thread: the request it is serving, its connection
vars == <<store, seeded, platform, resp, log, nreq, opened, inflight>>

Threads == 1..NumThreads
Idle == [op |-> "idle", a |-> <<>>, b |-> <<>>, conn |-> 0]

\* ------------------------------------------------------------ responses
Json(status, body) == [kind |-> "json", status |-> status, body |-> body]
\* An exception no handler catches: Flask answers 500.
Fault(exc) == [kind |-> "fault", status |-> 500, body |-> exc]
Answer(op, a, b, r) ==
    [op |-> op, a |-> a, b |-> b, kind |-> r.kind, status |-> r.status, body |-> r.body]

\* Mutant: connections come from a pool of one.
connect_pooled(conns) == 1

\* sqlite3.connect('users.db'): a new connection object on every call.
connect(conns) == Cardinality(conns) + 1

\* Mutant: the id is bound as a parameter, compared as one value.
get_user_response_bound(user_id, table) ==
    LET rows == SelectSeq(table, LAMBDA r : IntText(r[1]) = user_id) IN
    IF rows = <<>> THEN Fault("TypeError")
    ELSE Json(200, [id |-> rows[1][1], username |-> rows[1][2], password |-> rows[1][3],
                    email |-> rows[1][4], ssn |-> rows[1][5]])

\* Mutant: a missing row is answered with a 404 body.
get_user_response_404(user_id, table) ==
    LET cur == Execute(<<"id", "=">> \o user_id, table) IN
    IF ~cur.ok THEN Fault("OperationalError")
    ELSE IF cur.rows = <<>> THEN Json(404, [error |-> "not found"])
    ELSE LET user == cur.rows[1] IN
         Json(200, [id |-> user[1], username |-> user[2], password |-> user[3],
                    email |-> user[4], ssn |-> user[5]])

\* get_user, lines 21-32: the first selected row, all five fields; indexing
\* the None that fetchone returns for no row raises TypeError.
get_user_response(user_id, table) ==
    LET cur == Execute(<<"id", "=">> \o user_id, table) IN
    IF ~cur.ok THEN Fault("OperationalError")
    ELSE IF cur.rows = <<>> THEN Fault("TypeError")
    ELSE LET user == cur.rows[1] IN
         Json(200, [id |-> user[1], username |-> user[2], password |-> user[3],
                    email |-> user[4], ssn |-> user[5]])

\* login, lines 44-54.
login_query(username, password) ==
    <<"username", "=", "'">> \o PyStr(username)
        \o <<"'", "AND", "password", "=", "'">> \o PyStr(password) \o <<"'">>
\* Mutant: the failure body is returned without the 401 status.
login_response_no401(username, password, table) ==
    LET cur == Execute(login_query(username, password), table) IN
    IF ~cur.ok THEN Fault("OperationalError")
    ELSE IF cur.rows # <<>>
    THEN Json(200, [status |-> "success", api_key |-> API_SECRET])
    ELSE Json(200, [error |-> "Invalid username or password",
                    hint |-> <<"No user named">> \o PyStr(username)])

\* Mutant: the other hardcoded secret is returned.
login_response_dbpw(username, password, table) ==
    LET cur == Execute(login_query(username, password), table) IN
    IF ~cur.ok THEN Fault("OperationalError")
    ELSE IF cur.rows # <<>>
    THEN Json(200, [status |-> "success", api_key |-> DB_PASSWORD])
    ELSE Json(401, [error |-> "Invalid username or password",
                    hint |-> <<"No user named">> \o PyStr(username)])

login_response(username, password, table) ==
    LET cur == Execute(login_query(username, password), table) IN
    IF ~cur.ok THEN Fault("OperationalError")
    ELSE IF cur.rows # <<>>
    THEN Json(200, [status |-> "success", api_key |-> API_SECRET])
    ELSE Json(401, [error |-> "Invalid username or password",
                    hint |-> <<"No user named">> \o PyStr(username)])
\* line 50: the line a successful login prints
login_log(username, password, table, lines) ==
    LET cur == Execute(login_query(username, password), table) IN
    IF cur.ok /\ cur.rows # <<>>
    THEN Append(lines, <<"User">> \o PyStr(username)
                           \o <<"logged in with password">> \o PyStr(password))
    ELSE lines

\* Mutant: password and ssn are left out of each row.
search_response_redacted(q, table) ==
    LET cur == Execute(<<"username", "LIKE", "'", "%">> \o PyStr(q) \o <<"%", "'">>, table) IN
    IF ~cur.ok THEN Fault("OperationalError")
    ELSE Json(200, [i \in 1..Len(cur.rows) |-> <<cur.rows[i][1], cur.rows[i][2], cur.rows[i][4]>>])

\* search, lines 65-68: every selected row, as fetched.
search_response(q, table) ==
    LET cur == Execute(<<"username", "LIKE", "'", "%">> \o PyStr(q) \o <<"%", "'">>, table) IN
    IF ~cur.ok THEN Fault("OperationalError") ELSE Json(200, cur.rows)

\* Mutant: a delete that matched no row is answered 404.
delete_user_response_404(user_id, table) ==
    LET cur == Execute(<<"id", "=">> \o user_id, table) IN
    IF ~cur.ok THEN Fault("OperationalError")
    ELSE IF cur.rows = <<>> THEN Json(404, [status |-> "not found"])
    ELSE Json(200, [status |-> "deleted"])

\* Mutant: the delete is never committed.
delete_user_store_uncommitted(user_id, table) == table

\* Mutant: the matched rows are blanked, not removed.
delete_user_store_blanked(user_id, table) ==
    LET cur == Execute(<<"id", "=">> \o user_id, table) IN
    [i \in 1..Len(table) |->
        IF \E j \in 1..Len(cur.rows) : cur.rows[j] = table[i]
        THEN <<table[i][1], table[i][2], <<>>, table[i][4], table[i][5]>>
        ELSE table[i]]

\* delete_user, lines 77-80.
delete_user_response(user_id, table) ==
    IF ~Execute(<<"id", "=">> \o user_id, table).ok THEN Fault("OperationalError")
    ELSE Json(200, [status |-> "deleted"])
delete_user_store(user_id, table) ==
    IF ~Execute(<<"id", "=">> \o user_id, table).ok THEN table
    ELSE DeleteWhere(<<"id", "=">> \o user_id, table)

\* The exit status the host shell ends with for cmd.
ExitStatus(cmd) ==
    IF Len(cmd) = 2 /\ cmd[1] = "exit" /\ IsNum(cmd[2]) THEN NumVal(cmd[2])
    ELSE IF cmd = <<"echo", "test">> THEN 0
    ELSE 127
\* Mutant: the exit status itself on every host.
os_system_exit(cmd, host) == ExitStatus(cmd)

\* os.system(cmd): the wait status on POSIX (exit status in the high byte),
\* the shell's exit status on Windows.
os_system(cmd, host) == IF host = "posix" THEN ExitStatus(cmd) * 256 ELSE ExitStatus(cmd)
execute_command_response(cmd, host) ==
    IF cmd = None THEN Fault("TypeError") ELSE Json(200, [output |-> os_system(cmd, host)])

\* ------------------------------------------------------- request inputs
Literals == {IntText(k) : k \in 1..NoSuchId}
Tautologies == {IntText(k) \o <<"OR", "1", "=", "1">> : k \in {1, NoSuchId}}
IdTexts ==
    Literals \cup Tautologies \cup {<<"1", "AND", "1", "=", "0">>, <<"x">>, <<"1", ";", "x">>}
DeleteTexts == Literals \cup {<<"1", "OR", "1", "=", "1">>, <<"x">>}
\* (username, password) bodies: each row's own credentials, a wrong password,
\* an unknown name, two injections, and a body with neither field.
Injected == <<"'", "OR", "'", "1", "'", "=", "'", "1">>
Credentials ==
    {<<Username(k), Password(k)>> : k \in UserIds}
    \cup {<<Username(1), <<"w">>>>, <<<<"z">>, <<"w">>>>, <<<<"z">>, Injected>>,
          <<Username(1) \o <<"'", "--">>, <<"w">>>>, <<None, None>>}
SearchTexts == {<<"b">>, <<"B">>, <<"z">>, <<"%">>, <<"'">>, Injected, None}
CmdTexts == {<<"echo", "test">>, <<"exit", "1">>, None}

\* ------------------------------------------------------------- behaviour
\* all orders of the seeded rows
Orders == {p \in [UserIds -> UserIds] : \A i, j \in UserIds : p[i] = p[j] => i = j}

Init ==
    /\ \E p \in Orders : store = [i \in UserIds |-> Row(p[i])]
    /\ seeded = store
    /\ platform \in {"posix", "nt"}
    /\ resp = [op |-> "none", a |-> <<>>, b |-> <<>>, kind |-> "none", status |-> 0,
               body |-> <<>>]
    /\ log = <<>>
    /\ nreq = 0
    /\ opened = {}
    /\ inflight = [t \in Threads |-> Idle]

NoneInFlight == \A t \in Threads : inflight[t] = Idle
Accept ==
    /\ nreq < MaxRequests
    /\ nreq' = nreq + 1
\* lines 19, 42, 63, 75: the handler's own connection, dropped when it returns
Connected == opened' = opened \cup {connect(opened)}

\* GET /user/<user_id>
get_user(user_id) ==
    /\ NoneInFlight /\ Accept /\ Connected
    /\ resp' = Answer("get_user", user_id, <<>>, get_user_response(user_id, store))
    /\ UNCHANGED <<store, seeded, platform, log, inflight>>

\* POST /login
login(username, password) ==
    /\ NoneInFlight /\ Accept /\ Connected
    /\ log' = login_log(username, password, store, log)
    /\ resp' = Answer("login", username, password, login_response(username, password, store))
    /\ UNCHANGED <<store, seeded, platform, inflight>>

\* GET /search?q=
search(q) ==
    /\ NoneInFlight /\ Accept /\ Connected
    /\ resp' = Answer("search", q, <<>>, search_response(q, store))
    /\ UNCHANGED <<store, seeded, platform, log, inflight>>

\* DELETE /admin/delete/<user_id>
delete_user(user_id) ==
    /\ NoneInFlight /\ Accept /\ Connected
    /\ store' = delete_user_store(user_id, store)
    /\ resp' = Answer("delete_user", user_id, <<>>, delete_user_response(user_id, store))
    /\ UNCHANGED <<seeded, platform, log, inflight>>

\* GET /exec?cmd=
execute_command(cmd) ==
    /\ NoneInFlight /\ Accept
    /\ resp' = Answer("exec", cmd, <<>>, execute_command_response(cmd, platform))
    /\ UNCHANGED <<store, seeded, platform, log, opened, inflight>>

Next ==
    \/ \E user_id \in IdTexts : get_user(user_id)
    \/ \E c \in Credentials : login(c[1], c[2])
    \/ \E q \in SearchTexts : search(q)
    \/ \E user_id \in DeleteTexts : delete_user(user_id)
    \/ \E cmd \in CmdTexts : execute_command(cmd)

Spec == Init /\ [][Next]_vars

\* ------------------------------------------ requests on concurrent threads
\* The development server serves each request on a thread of its own.  A
\* handler first opens its connection (lines 19, 42, 63, 75) and then runs its
\* statement, which sqlite executes as one transaction.
ConcRequests ==
    {[op |-> "get_user", a |-> u, b |-> <<>>] : u \in {<<"1">>, <<"1", "OR", "1", "=", "1">>}}
    \cup {[op |-> "login", a |-> Username(1), b |-> Password(1)]}
    \cup {[op |-> "search", a |-> <<"b">>, b |-> <<>>]}
    \cup {[op |-> "delete_user", a |-> <<"1">>, b |-> <<>>]}

handler_connect(t, r) ==
    /\ inflight[t] = Idle
    /\ Accept /\ Connected
    /\ inflight' = [inflight EXCEPT ![t] =
                        [op |-> r.op, a |-> r.a, b |-> r.b, conn |-> connect(opened)]]
    /\ UNCHANGED <<store, seeded, platform, resp, log>>

Return(t) == inflight' = [inflight EXCEPT ![t] = Idle]

get_user_run(t) ==
    /\ inflight[t].op = "get_user"
    /\ resp' = Answer("get_user", inflight[t].a, <<>>, get_user_response(inflight[t].a, store))
    /\ Return(t)
    /\ UNCHANGED <<store, seeded, platform, log, nreq, opened>>

login_run(t) ==
    /\ inflight[t].op = "login"
    /\ log' = login_log(inflight[t].a, inflight[t].b, store, log)
    /\ resp' = Answer("login", inflight[t].a, inflight[t].b,
                      login_response(inflight[t].a, inflight[t].b, store))
    /\ Return(t)
    /\ UNCHANGED <<store, seeded, platform, nreq, opened>>

search_run(t) ==
    /\ inflight[t].op = "search"
    /\ resp' = Answer("search", inflight[t].a, <<>>, search_response(inflight[t].a, store))
    /\ Return(t)
    /\ UNCHANGED <<store, seeded, platform, log, nreq, opened>>

delete_user_run(t) ==
    /\ inflight[t].op = "delete_user"
    /\ store' = delete_user_store(inflight[t].a, store)
    /\ resp' = Answer("delete_user", inflight[t].a, <<>>,
                      delete_user_response(inflight[t].a, store))
    /\ Return(t)
    /\ UNCHANGED <<seeded, platform, log, nreq, opened>>

NextConc ==
    \E t \in Threads :
        \/ \E r \in ConcRequests : handler_connect(t, r)
        \/ get_user_run(t)
        \/ login_run(t)
        \/ search_run(t)
        \/ delete_user_run(t)

SpecConc == Init /\ [][NextConc]_vars

\* ---------------------------------------------------------------- claims
Delimiters == {"OR", "AND", ";", "--", "'", "="}
HasDelimiter(text) == \E i \in 1..Len(text) : text[i] \in Delimiters
QuoteFree(text) == \A i \in 1..Len(text) : text[i] # "'"
WildcardFree(text) == \A i \in 1..Len(text) : text[i] \notin {"%", "_"}
NoRow(k, table) == \A i \in 1..Len(table) : table[i][1] # k
SameAnswer(r, q) == r.kind = q.kind /\ r.status = q.status /\ r.body = q.body
RowJson(user) ==
    [id |-> user[1], username |-> user[2], password |-> user[3], email |-> user[4],
     ssn |-> user[5]]
\* sub occurs in text, ASCII letters compared without regard to case
ContainsCI(text, sub) ==
    \E i \in 0..(Len(text) - Len(sub)) :
        \A j \in 1..Len(sub) : Lower(text[i + j]) = Lower(sub[j])
Contains(text, sub) ==
    \E i \in 0..(Len(text) - Len(sub)) : \A j \in 1..Len(sub) : text[i + j] = sub[j]

\* C1 (as stated): a get-user request whose user_id contains a store-command
\* delimiter is answered with a row other than the one literal id 1 gets.
C1_Original ==
    (resp.op = "get_user" /\ HasDelimiter(resp.a))
        => /\ resp.kind = "json"
           /\ ~SameAnswer(resp, get_user_response(<<"1">>, store))

\* C1 (amended): the predicate is the caller's text, so a get-user request for
\* an always-true text "k OR 1=1" is answered with the first row of the store
\* in iteration order, whatever its id (an unhandled fault when the store is
\* empty); the answer differs from literal id 1's exactly when that first row
\* is not the row with id 1.
C1_FirstRow ==
    (resp.op = "get_user" /\ resp.a \in Tautologies)
        => IF store = <<>>
           THEN resp.kind = "fault"
           ELSE /\ resp.kind = "json" /\ resp.status = 200
                /\ resp.body = RowJson(store[1])
                /\ SameAnswer(resp, get_user_response(<<"1">>, store)) <=> store[1][1] = 1
C1_Witness ==
    /\ resp.op = "get_user" /\ resp.a = IntText(NoSuchId) \o <<"OR", "1", "=", "1">>
    /\ resp.kind = "json" /\ Len(store) >= 2 /\ resp.body.id # 1

\* C2 (as stated): a login whose username matches no row of the store gets
\* status 401 with the username in the hint, whatever the password text.
C2_Original ==
    (resp.op = "login" /\ \A i \in 1..Len(store) : store[i][2] # PyStr(resp.a))
        => /\ resp.kind = "json" /\ resp.status = 401
           /\ resp.body.hint = <<"No user named">> \o PyStr(resp.a)

\* C2 (amended): a login whose username and password hold no apostrophe (a
\* missing field counts as the text None) and whose username matches no row
\* gets status 401 with the username in the hint, never the success response.
C2_UnknownUser ==
    (/\ resp.op = "login"
     /\ QuoteFree(PyStr(resp.a)) /\ QuoteFree(PyStr(resp.b))
     /\ \A i \in 1..Len(store) : store[i][2] # PyStr(resp.a))
        => /\ resp.kind = "json" /\ resp.status = 401
           /\ resp.body.hint = <<"No user named">> \o PyStr(resp.a)
C2_Witness ==
    /\ resp.op = "login" /\ resp.a = <<"z">> /\ resp.b = <<"w">>
    /\ resp.status = 401 /\ store # <<>>

\* C3 (as stated): a login with the username and password of a row in the
\* store gets the success status and the API-secret constant.
C3_Original ==
    (/\ resp.op = "login"
     /\ \E i \in 1..Len(store) : store[i][2] = resp.a /\ store[i][3] = resp.b)
        => /\ resp.kind = "json" /\ resp.status = 200
           /\ resp.body = [status |-> "success", api_key |-> API_SECRET]

\* C3 (amended): a login with the username and password of a row in the
\* store, neither holding an apostrophe, gets the success status and the
\* API-secret constant, the same after any earlier requests.
C3_Success ==
    (/\ resp.op = "login"
     /\ QuoteFree(resp.a) /\ QuoteFree(resp.b)
     /\ \E i \in 1..Len(store) : store[i][2] = resp.a /\ store[i][3] = resp.b)
        => /\ resp.kind = "json" /\ resp.status = 200
           /\ resp.body = [status |-> "success", api_key |-> "sk_live_abc123xyz789"]
C3_Witness ==
    /\ resp.op = "login" /\ resp.a = Username(1) /\ resp.b = Password(1)
    /\ resp.status = 200 /\ nreq >= 2 /\ store # seeded

\* C4 (as stated): every delete-user request, for every user_id text, is
\* answered {status: "deleted"}.
C4_Original ==
    resp.op = "delete_user" => (resp.kind = "json" /\ resp.body = [status |-> "deleted"])

\* C4 (amended): a delete-user request whose user_id text compiles as the
\* predicate of one statement is answered {status: "deleted"} whether or not
\* a row matches, and when none matches the store is unchanged; a text that
\* does not compile ends in an unhandled fault with the store unchanged.
C4_Deleted ==
    [][resp'.op = "delete_user" =>
        LET cur == Execute(<<"id", "=">> \o resp'.a, store) IN
        /\ cur.ok => /\ resp'.kind = "json" /\ resp'.status = 200
                      /\ resp'.body = [status |-> "deleted"]
        /\ ~cur.ok => (resp'.kind = "fault" /\ store' = store)
        /\ (resp'.a \in Literals /\ NoRow(NumVal(resp'.a[1]), store))
               => (store' = store /\ resp'.kind = "json" /\ resp'.body.status = "deleted")
        /\ cur.rows = <<>> => store' = store]_vars
C4_Witness ==
    /\ resp.op = "delete_user" /\ resp.a = IntText(NoSuchId)
    /\ resp.kind = "json" /\ resp.body.status = "deleted" /\ store = seeded

\* C5: a get-user request whose query matches no row ends in an unhandled
\* fault (status 500, never a 404 or a JSON body) and leaves the store as it was.
C5_MissingRowFaults ==
    [][(/\ resp'.op = "get_user"
        /\ \/ resp'.a \in Literals /\ NoRow(NumVal(resp'.a[1]), store)
           \/ LET cur == Execute(<<"id", "=">> \o resp'.a, store) IN cur.ok /\ cur.rows = <<>>)
        => /\ resp'.kind = "fault" /\ resp'.status = 500 /\ resp'.body = "TypeError"
           /\ store' = store]_vars
C5_Witness ==
    /\ resp.op = "get_user" /\ resp.a = IntText(NoSuchId)
    /\ resp.kind = "fault" /\ store # <<>>

\* C6 (as stated): a search for q returns exactly the rows whose username
\* contains q.
C6_Original ==
    (resp.op = "search" /\ resp.a # None)
        => /\ resp.kind = "json"
           /\ resp.body = SelectSeq(store, LAMBDA r : Contains(r[2], resp.a))

\* C6 (amended): a search for a text q with no apostrophe and no LIKE wildcard
\* (% or _) returns exactly the rows of the store whose username contains q,
\* ASCII letters compared without regard to case, each with all five fields
\* in column order, in store iteration order.
C6_Search ==
    (resp.op = "search" /\ resp.a # None /\ QuoteFree(resp.a) /\ WildcardFree(resp.a))
        => /\ resp.kind = "json" /\ resp.status = 200
           /\ resp.body = SelectSeq(store, LAMBDA r : ContainsCI(r[2], resp.a))
           /\ \A i \in 1..Len(resp.body) : Len(resp.body[i]) = 5
C6_Witness ==
    /\ resp.op = "search" /\ resp.a = <<"B">> /\ resp.kind = "json"
    /\ Len(resp.body) >= 2 /\ resp.body[1][1] > resp.body[2][1]
    /\ resp.body[1][3] = Password(resp.body[1][1])

\* C7 (as stated): the output field is the interpreter's exit status for cmd.
C7_Original ==
    (resp.op = "exec" /\ resp.a # None)
        => (resp.kind = "json" /\ resp.body.output = ExitStatus(resp.a))

\* C7 (amended): the output field is what os.system returns for cmd: on a
\* POSIX host the wait status, 256 times the interpreter's exit status (equal
\* to it only when it is zero), on Windows the exit status itself.
C7_WaitStatus ==
    (resp.op = "exec" /\ resp.a # None)
        => /\ resp.kind = "json" /\ resp.status = 200
           /\ platform = "posix" => resp.body.output = 256 * ExitStatus(resp.a)
           /\ platform = "nt" => resp.body.output = ExitStatus(resp.a)
           /\ resp.body.output = 0 <=> ExitStatus(resp.a) = 0
C7_Witness ==
    /\ resp.op = "exec" /\ resp.a = <<"exit", "1">> /\ platform = "posix"
    /\ resp.body.output = 256

\* C8: every row of the store is a row of the seeded store, unchanged; only
\* delete-user changes the store, and only by removing rows.
C8_ReadOrDelete ==
    [][/\ \A i \in 1..Len(store') : \E j \in 1..Len(seeded) : seeded[j] = store'[i]
       /\ store' # store => (resp'.op = "delete_user" /\ Len(store') < Len(store))
       /\ seeded' = seeded]_vars
C8_Witness ==
    /\ nreq = 2 /\ store # seeded /\ store # <<>>
    /\ resp.op = "get_user" /\ HasDelimiter(resp.a)

\* C9: a request's connection is one no earlier request was given, and no two
\* requests in flight hold the same connection.
C9_FreshConnection ==
    [][\A t \in Threads :
        (inflight[t] = Idle /\ inflight'[t] # Idle)
            => /\ inflight'[t].conn \notin opened
               /\ inflight'[t].conn \in opened'
               /\ \A u \in Threads \ {t} :
                      inflight'[u] # Idle => inflight'[u].conn # inflight'[t].conn]_vars
C9_Witness ==
    /\ \A t \in Threads : inflight[t] # Idle
    /\ \E t, u \in Threads : inflight[t].conn # inflight[u].conn

\* C10: once delete-user for a literal id k has committed, no later state has
\* a row with id k: a later get-user for k faults and no later search
\* response holds a row with id k.
C10_DeletePermanent ==
    [][\A k \in 1..NoSuchId :
        (\/ NoRow(k, store)
         \/ resp'.op = "delete_user" /\ resp'.a = IntText(k) /\ resp'.kind = "json")
            => /\ NoRow(k, store')
               /\ (resp'.op = "get_user" /\ resp'.a = IntText(k)) => resp'.kind = "fault"
               /\ (resp'.op = "search" /\ resp'.kind = "json")
                      => \A i \in 1..Len(resp'.body) : resp'.body[i][1] # k]_vars
C10_Witness ==
    /\ resp.op = "get_user" /\ resp.a = IntText(1) /\ resp.kind = "fault"
    /\ ~NoRow(1, seeded) /\ NoRow(1, store) /\ store # <<>>
====
